---- MODULE Spec2Model ----
(***************************************************************************)
(* ABCIE shift scheduler (streamlit_shift_app.py).                         *)
(*                                                                         *)
(* The model covers the employees table, the roster operations on it, the  *)
(* Generate button handler and generate_schedule, which is followed one    *)
(* (date, zone) iteration at a time.                                       *)
(*                                                                         *)
(* Representation.                                                         *)
(*   - A "%Y-%m-%d" date string is the triple <<year, month, day>>; two    *)
(*     well-formed strings are equal exactly when the triples are.         *)
(*   - A datetime is its day number within 2025 (1 = 2025-01-01), so that  *)
(*     (current - last).days is the difference of two day numbers.         *)
(*   - A name is the sequence of its character codes; Python compares      *)
(*     strings lexicographically by code point.                            *)
(*   - A comma-joined TEXT column is the sequence of its tokens, the comma *)
(*     being a token of its own (typed like the column's other tokens).    *)
(***************************************************************************)
EXTENDS Integers, Sequences, FiniteSets, TLC

VARIABLES
    db,     \* the employees table: name -> row (a function on the stored names)
    run     \* per session: the Generate handler's position and generate_schedule's locals

vars == <<db, run>>

(***************************************************************************)
(* Bounds of the model.                                                    *)
(***************************************************************************)
\* Number of consecutive calendar days, from FirstDate on, the date pickers offer.
NumDays == 4

\* The script runs of the Generate handler within one behaviour.
Sessions == {"first", "second"}

\* First date offered: Friday 2025-08-29, so that the window holds a weekend,
\* a month boundary and a week boundary.
FirstDate == <<2025, 8, 29>>

\* The names that occur: "a", "ab", "b" as character codes.
Names == { <<1>>, <<1, 2>> , <<2>> }

(***************************************************************************)
(* Program constants.                                                      *)
(***************************************************************************)
ZONES == <<"A", "B", "C", "I", "E">>

ZoneSet == {ZONES[i] : i \in 1..Len(ZONES)}

\* days_since_last >= 3
Cooldown == 3

\* days_since_last when the person has no assignment in this run
NoLast == 9999

\* point_value = 2 if is_weekend(date_str) else 1
WeekendPoints == 2

WeekdayPoints == 1

\* datetime.weekday() >= 5
FirstWeekendDay == 5

\* SQL NULL / Python None
None == "None"

\* The "," of a joined column: among zone codes, and among date strings
ZoneComma == ","

DateComma == <<>>

(***************************************************************************)
(* Calendar: datetime.strptime, strftime, weekday, timedelta(days=1).      *)
(***************************************************************************)
MonthLen == <<31, 28, 31, 30, 31, 30, 31, 31, 30, 31, 30, 31>>

RECURSIVE DaysBefore(_)
DaysBefore(m) == IF m <= 1 THEN 0 ELSE DaysBefore(m - 1) + MonthLen[m - 1]

\* datetime.strptime(s, "%Y-%m-%d"), as the day number within the year
Strptime(s) == DaysBefore(s[2]) + s[3]

\* d.strftime("%Y-%m-%d")
Strftime(d) ==
    LET m == CHOOSE k \in 1..12 : DaysBefore(k) < d /\ d <= DaysBefore(k) + MonthLen[k]
    IN  <<2025, m, d - DaysBefore(m)>>

\* datetime.weekday(): Monday = 0 ... Sunday = 6; 2025-01-01 is a Wednesday
Weekday(d) == (d + 1) % 7

\* The dates the two date_input widgets offer.
Dates == {Strftime(Strptime(FirstDate) + i) : i \in 0..(NumDays - 1)}

\* start_date > end_date on two datetime.date values
DateGreater(a, b) ==
    \/ a[1] > b[1]
    \/ a[1] = b[1] /\ a[2] > b[2]
    \/ a[1] = b[1] /\ a[2] = b[2] /\ a[3] > b[3]

\* is_weekend with the comparison written > 5: Sunday alone
is_weekendSundayOnly(date_str) == Weekday(Strptime(date_str)) > FirstWeekendDay

\* is_weekend: datetime.strptime(date_str, "%Y-%m-%d").weekday() >= 5
is_weekend(date_str) == Weekday(Strptime(date_str)) >= FirstWeekendDay

(***************************************************************************)
(* TEXT columns: ",".join(list) and str.split(",").                        *)
(***************************************************************************)
RECURSIVE Join(_, _)
Join(list, comma) ==
    IF Len(list) = 0 THEN <<>>
    ELSE IF Len(list) = 1 THEN <<list[1]>>
    ELSE <<list[1], comma>> \o Join(Tail(list), comma)

\* x.split(",") if x else []
Split(x, comma) == SelectSeq(x, LAMBDA t : t # comma)

SeqToSet(s) == {s[i] : i \in 1..Len(s)}

(***************************************************************************)
(* Roster store.                                                           *)
(***************************************************************************)
\* The row INSERT OR IGNORE ... VALUES (?, ?, ?, ?, ?, ?) writes.
EmployeeRow(initial_points, max_points, off_days, preferred_zone, allowed_zones) ==
    [ points         |-> initial_points,
      max_points     |-> max_points,
      off_days       |-> Join(off_days, DateComma),
      preferred_zone |-> preferred_zone,
      allowed_zones  |-> Join(allowed_zones, ZoneComma) ]

\* get_employees: the rows with off_days and allowed_zones split into lists
get_employees(table) ==
    [ n \in DOMAIN table |->
        [ name           |-> n,
          points         |-> table[n].points,
          max_points     |-> table[n].max_points,
          off_days       |-> Split(table[n].off_days, DateComma),
          preferred_zone |-> table[n].preferred_zone,
          allowed_zones  |-> SelectSeq(Split(table[n].allowed_zones, ZoneComma),
                                      LAMBDA s : s # "") ] ]

\* SELECT * FROM employees has no ORDER BY: any order of the rows
RowOrders(df) ==
    LET n == Cardinality(DOMAIN df)
    IN  { o \in [1..n -> DOMAIN df] : \A i, j \in 1..n : o[i] = o[j] => i = j }

\* update_points with SET points = ? in place of SET points = points + ?
update_pointsOverwriting(table, name, points) ==
    [ n \in DOMAIN table |->
        IF n = name THEN [table[n] EXCEPT !.points = points] ELSE table[n] ]

\* UPDATE employees SET points = points + ? WHERE name = ?
update_points(table, name, points) ==
    [ n \in DOMAIN table |->
        IF n = name THEN [table[n] EXCEPT !.points = @ + points] ELSE table[n] ]

(***************************************************************************)
(* generate_schedule: eligibility filter and ranking.                      *)
(***************************************************************************)
\* point_value = 2 if is_weekend(date_str) else 1
PointValue(date_str) == IF is_weekend(date_str) THEN WeekendPoints ELSE WeekdayPoints

\* points_map.get(name, 0)
PointsOf(points_map, name) ==
    IF name \in DOMAIN points_map THEN points_map[name] ELSE 0

\* days_since_last = (current - last).days if last else 9999
DaysSinceLast(assigned_last, name, current) ==
    IF name \in DOMAIN assigned_last THEN current - assigned_last[name] ELSE NoLast

\* preferred = (r.get("preferred_zone") or "").strip()
Preferred(r) == IF r.preferred_zone = None THEN "" ELSE r.preferred_zone

\* The condition of lines 119-125 without the two tests on the run's history.
AdmissibleNoHistory(st, r, date_str, zone, point_value) ==
    /\ date_str \notin SeqToSet(r.off_days)
    /\ (PointsOf(st.points_map, r.name) + point_value) <= r.max_points
    /\ zone \in SeqToSet(r.allowed_zones)

\* ... without the test against max_points.
AdmissibleNoCeiling(st, r, date_str, zone, point_value) ==
    /\ date_str \notin SeqToSet(r.off_days)
    /\ r.name \notin st.assigned_today
    /\ DaysSinceLast(st.assigned_last, r.name, st.current) >= Cooldown
    /\ zone \in SeqToSet(r.allowed_zones)

\* ... with days_since_last >= 2.
AdmissibleShortCooldown(st, r, date_str, zone, point_value) ==
    /\ date_str \notin SeqToSet(r.off_days)
    /\ r.name \notin st.assigned_today
    /\ DaysSinceLast(st.assigned_last, r.name, st.current) >= Cooldown - 1
    /\ (PointsOf(st.points_map, r.name) + point_value) <= r.max_points
    /\ zone \in SeqToSet(r.allowed_zones)

\* ... without the test against off_days.
AdmissibleIgnoringOffDays(st, r, date_str, zone, point_value) ==
    /\ r.name \notin st.assigned_today
    /\ DaysSinceLast(st.assigned_last, r.name, st.current) >= Cooldown
    /\ (PointsOf(st.points_map, r.name) + point_value) <= r.max_points
    /\ zone \in SeqToSet(r.allowed_zones)

\* The condition of lines 119-125 with the points read from the row instead
\* of from points_map.
AdmissibleRowPoints(st, r, date_str, zone, point_value) ==
    /\ date_str \notin SeqToSet(r.off_days)
    /\ r.name \notin st.assigned_today
    /\ DaysSinceLast(st.assigned_last, r.name, st.current) >= Cooldown
    /\ (r.points + point_value) <= r.max_points
    /\ zone \in SeqToSet(r.allowed_zones)

\* The condition of the if statement (lines 119-125) that admits row r.
Admissible(st, r, date_str, zone, point_value) ==
    /\ date_str \notin SeqToSet(r.off_days)
    /\ r.name \notin st.assigned_today
    /\ DaysSinceLast(st.assigned_last, r.name, st.current) >= Cooldown
    /\ (PointsOf(st.points_map, r.name) + point_value) <= r.max_points
    /\ zone \in SeqToSet(r.allowed_zones)

\* candidates, in the order the rows were read: (pref_match, points, name)
Candidates(st, df, order, date_str, zone, point_value) ==
    LET admitted == SelectSeq(order,
                       LAMBDA n : Admissible(st, df[n], date_str, zone, point_value))
    IN  [ i \in 1..Len(admitted) |->
            << Preferred(df[admitted[i]]) = zone,
               PointsOf(st.points_map, admitted[i]),
               admitted[i] >> ]

\* Python's < on str
RECURSIVE StrLess(_, _)
StrLess(x, y) ==
    IF Len(y) = 0 THEN FALSE
    ELSE IF Len(x) = 0 THEN TRUE
    ELSE IF x[1] # y[1] THEN x[1] < y[1]
    ELSE StrLess(Tail(x), Tail(y))

\* The sort key without the name, and with the points negated.
SortKeyWithoutName(t) == << IF t[1] THEN -1 ELSE 0, t[2], <<>> >>

SortKeyMostPointsFirst(t) == << IF t[1] THEN -1 ELSE 0, 0 - t[2], t[3] >>

\* key=lambda t: (-int(t[0]), t[1], t[2])
SortKey(t) == << IF t[1] THEN -1 ELSE 0, t[2], t[3] >>

\* Python's < on the key tuples
KeyLess(a, b) ==
    \/ a[1] < b[1]
    \/ a[1] = b[1] /\ a[2] < b[2]
    \/ a[1] = b[1] /\ a[2] = b[2] /\ StrLess(a[3], b[3])

\* list.sort is stable: x goes before the first element with a greater key
RECURSIVE InsertSorted(_, _)
InsertSorted(sorted, x) ==
    IF sorted = <<>> THEN <<x>>
    ELSE IF KeyLess(SortKey(x), SortKey(Head(sorted))) THEN <<x>> \o sorted
    ELSE <<Head(sorted)>> \o InsertSorted(Tail(sorted), x)

RECURSIVE Sort(_)
Sort(seq) ==
    IF seq = <<>> THEN <<>>
    ELSE InsertSorted(Sort(SubSeq(seq, 1, Len(seq) - 1)), seq[Len(seq)])

(***************************************************************************)
(* generate_schedule: the loop over the days and the zones.                *)
(***************************************************************************)
\* A session before its Generate button is pressed.
IdleRun ==
    [ pc             |-> "idle",
      start_date     |-> FirstDate,
      end_date       |-> FirstDate,
      apply_points   |-> FALSE,
      base_df        |-> <<>>,
      points_map     |-> <<>>,
      current        |-> 0,
      end            |-> 0,
      zi             |-> 1,
      assigned_last  |-> <<>>,
      assigned_today |-> {},
      schedule       |-> <<>>,
      unassigned     |-> <<>> ]

\* Lines 89-100: the locals before the first iteration; the while condition
\* decides whether any iteration runs.
EnterSchedule(table, start_date, end_date, apply_points) ==
    LET base_df == get_employees(table)
        current == Strptime(start_date)
        end     == Strptime(end_date)
    IN  [ IdleRun EXCEPT
            !.pc           = IF current <= end THEN "running" ELSE "done",
            !.start_date   = start_date,
            !.end_date     = end_date,
            !.apply_points = apply_points,
            !.base_df      = base_df,
            !.points_map   = [n \in DOMAIN base_df |-> base_df[n].points],
            !.current      = current,
            !.end          = end ]

AssignmentRecord(date_str, zone, chosen, point_value) ==
    [Date |-> date_str, Shift |-> zone, Employee |-> chosen, Points |-> point_value]

UnassignedRecord(date_str, zone, reason) ==
    [Date |-> date_str, Zone |-> zone, Reason |-> reason]

\* Lines 131-140 without the update of points_map (line 140).
AssignWithoutPoints(st, date_str, zone, chosen, point_value) ==
    [ st EXCEPT
        !.schedule       = Append(@, AssignmentRecord(date_str, zone, chosen, point_value)),
        !.assigned_last  = [n \in DOMAIN @ \cup {chosen} |->
                               IF n = chosen THEN st.current ELSE @[n]],
        !.assigned_today = @ \cup {chosen} ]

\* Lines 131-140 with the record put at the head of the list.
AssignPrepending(st, date_str, zone, chosen, point_value) ==
    [ st EXCEPT
        !.schedule       = <<AssignmentRecord(date_str, zone, chosen, point_value)>> \o @,
        !.assigned_last  = [n \in DOMAIN @ \cup {chosen} |->
                               IF n = chosen THEN st.current ELSE @[n]],
        !.assigned_today = @ \cup {chosen},
        !.points_map     = [n \in DOMAIN @ \cup {chosen} |->
                               IF n = chosen THEN PointsOf(@, chosen) + point_value
                               ELSE @[n]] ]

\* Lines 131-140: the winner is recorded and the run's tallies are updated.
Assign(st, date_str, zone, chosen, point_value) ==
    [ st EXCEPT
        !.schedule       = Append(@, AssignmentRecord(date_str, zone, chosen, point_value)),
        !.assigned_last  = [n \in DOMAIN @ \cup {chosen} |->
                               IF n = chosen THEN st.current ELSE @[n]],
        !.assigned_today = @ \cup {chosen},
        !.points_map     = [n \in DOMAIN @ \cup {chosen} |->
                               IF n = chosen THEN PointsOf(@, chosen) + point_value
                               ELSE @[n]] ]

\* Lines 106-144 as a missing `continue` would leave them.
ZoneBodyWithoutContinue(st, df, sorted, date_str, zone, point_value) ==
    LET st1 == IF DOMAIN df = {}
               THEN [st EXCEPT !.unassigned =
                        Append(@, UnassignedRecord(date_str, zone, "No employees"))]
               ELSE st
    IN  IF sorted # <<>>
        THEN Assign(st1, date_str, zone, sorted[1][3], point_value)
        ELSE [st1 EXCEPT !.unassigned =
                 Append(@, UnassignedRecord(date_str, zone, "No eligible employees"))]

\* Lines 106-144 without the test of df.empty.
ZoneBodyWithoutEmptyCheck(st, df, sorted, date_str, zone, point_value) ==
    IF sorted # <<>>
    THEN Assign(st, date_str, zone, sorted[1][3], point_value)
    ELSE [st EXCEPT !.unassigned =
             Append(@, UnassignedRecord(date_str, zone, "No eligible employees"))]

\* Lines 106-144: the run's locals after the body of one zone iteration.
ZoneBody(st, df, sorted, date_str, zone, point_value) ==
    IF DOMAIN df = {}
    THEN [st EXCEPT !.unassigned =
             Append(@, UnassignedRecord(date_str, zone, "No employees"))]
    ELSE IF sorted # <<>>
    THEN Assign(st, date_str, zone, sorted[1][3], point_value)
    ELSE [st EXCEPT !.unassigned =
             Append(@, UnassignedRecord(date_str, zone, "No eligible employees"))]

\* Lines 141-142 with the test of apply_points left out.
StoreAlwaysUpdated(table, apply_points, df, sorted, point_value) ==
    IF DOMAIN df # {} /\ sorted # <<>>
    THEN update_points(table, sorted[1][3], point_value)
    ELSE table

\* Lines 141-142: the table after the body of one zone iteration.
StoreAfterZone(table, apply_points, df, sorted, point_value) ==
    IF DOMAIN df # {} /\ sorted # <<>> /\ apply_points
    THEN update_points(table, sorted[1][3], point_value)
    ELSE table

\* The next zone; after the last zone, line 145 and the head of the next
\* iteration of the while loop (lines 100-103), or the return of line 147.
Advance(st) ==
    IF st.zi < Len(ZONES)
    THEN [st EXCEPT !.zi = @ + 1]
    ELSE [st EXCEPT !.current        = @ + 1,
                    !.zi             = 1,
                    !.assigned_today = {},
                    !.pc             = IF st.current + 1 <= st.end THEN "running" ELSE "done"]

(***************************************************************************)
(* Actions.                                                                *)
(***************************************************************************)
\* No generate_schedule call is under way (one script run at a time).
Quiet == \A s \in Sessions : run[s].pc # "running"

\* The test of the Generate handler with the comparison left out.
RangeNeverRejected(start_date, end_date) == FALSE

\* if start_date > end_date: st.error(...)
RangeRejected(start_date, end_date) == DateGreater(start_date, end_date)

\* The Generate button (lines 297-303).
GenerateButton(s, start_date, end_date, apply_points) ==
    /\ run[s].pc = "idle"
    /\ run' = [run EXCEPT ![s] =
                 IF RangeRejected(start_date, end_date)
                 THEN [IdleRun EXCEPT !.pc         = "error",
                                      !.start_date = start_date,
                                      !.end_date   = end_date]
                 ELSE EnterSchedule(db, start_date, end_date, apply_points)]
    /\ UNCHANGED db

\* One iteration of `for zone in ZONES` (lines 104-144).
ZoneStep(s) ==
    /\ run[s].pc = "running"
    /\ LET st          == run[s]
           date_str    == Strftime(st.current)
           point_value == PointValue(date_str)
           zone        == ZONES[st.zi]
           df          == get_employees(db)
       IN  \E order \in RowOrders(df) :
             LET sorted == Sort(Candidates(st, df, order, date_str, zone, point_value))
             IN  /\ run' = [run EXCEPT ![s] =
                              Advance(ZoneBody(st, df, sorted, date_str, zone, point_value))]
                 /\ db' = StoreAfterZone(db, st.apply_points, df, sorted, point_value)

\* reset_points(conn, None): UPDATE employees SET points = 0
reset_points_all(table) ==
    [ n \in DOMAIN table |-> [table[n] EXCEPT !.points = 0] ]

\* reset_points(conn, names) with the WHERE clause left out.
reset_points_namedEveryone(table, names) ==
    [ n \in DOMAIN table |-> [table[n] EXCEPT !.points = 0] ]

\* reset_points(conn, names): UPDATE employees SET points = 0 WHERE name IN (...)
reset_points_named(table, names) ==
    [ n \in DOMAIN table |->
        IF n \in SeqToSet(names) THEN [table[n] EXCEPT !.points = 0] ELSE table[n] ]

\* The Reset Points Now button (lines 239-249).
ResetButton(reset_mode, names) ==
    /\ db' = IF reset_mode = "All" THEN reset_points_all(db)
             ELSE IF names # <<>> THEN reset_points_named(db, names)
             ELSE db
    /\ UNCHANGED run

(***************************************************************************)
(* Initial states: rosters saved through the Add / Update Employee form.   *)
(***************************************************************************)
Sat == <<2025, 8, 30>>

Fri == <<2025, 8, 29>>

RowMenu ==
    { EmployeeRow(0, 3, <<>>,    "B",  <<"A", "B", "C", "I", "E">>),
      EmployeeRow(1, 2, <<Sat>>, "B",  <<"A", "B">>),
      EmployeeRow(2, 2, <<>>,    "A",  <<"A">>),
      EmployeeRow(0, 2, <<Fri>>, None, <<"B", "C">>) }

Rosters == UNION { [S -> RowMenu] : S \in SUBSET Names }

\* The lists of names typed into the reset form.
ResetNames == {<<>>} \cup {<<n>> : n \in Names}

Init ==
    /\ db \in Rosters
    /\ run = [s \in Sessions |-> IdleRun]

Next ==
    \/ \E start_date \in Dates, end_date \in Dates, apply_points \in BOOLEAN :
         Quiet /\ GenerateButton("first", start_date, end_date, apply_points)
    \/ \E s \in Sessions : ZoneStep(s)

Spec == Init /\ [][Next]_vars

\* Generate pressed a second time with the date widgets left as they are.
GenerateAgain ==
    \E apply_points \in BOOLEAN :
        /\ Quiet
        /\ run["first"].pc # "idle"
        /\ GenerateButton("second", run["first"].start_date, run["first"].end_date,
                          apply_points)

NextRepeat ==
    \/ \E start_date \in Dates, end_date \in Dates, apply_points \in BOOLEAN :
         Quiet /\ GenerateButton("first", start_date, end_date, apply_points)
    \/ GenerateAgain
    \/ \E s \in Sessions : ZoneStep(s)

SpecRepeat == Init /\ [][NextRepeat]_vars

(***************************************************************************)
(* update_points raising inside generate_schedule.                         *)
(***************************************************************************)
\* The table after update_points raised: the UPDATE did not run, or it ran
\* and conn.commit() raised with the change left on the shared connection.
FailedWriteTables(table, name, points) ==
    {table, update_points(table, name, points)}

\* The exception caught and ignored: the loop goes on.
FailedRunSwallowed(st) == Advance(st)

\* Neither generate_schedule (lines 141-142) nor the handler (line 301)
\* catches the exception: the call ends there, at the failing iteration.
FailedRun(st) == [st EXCEPT !.pc = "failed"]

\* One iteration of `for zone in ZONES` in which update_points raises.
ZoneStepWriteFails(s) ==
    /\ run[s].pc = "running"
    /\ run[s].apply_points
    /\ LET st          == run[s]
           date_str    == Strftime(st.current)
           point_value == PointValue(date_str)
           zone        == ZONES[st.zi]
           df          == get_employees(db)
       IN  \E order \in RowOrders(df) :
             LET sorted == Sort(Candidates(st, df, order, date_str, zone, point_value))
             IN  /\ DOMAIN df # {}
                 /\ sorted # <<>>
                 /\ run' = [run EXCEPT ![s] =
                              FailedRun(ZoneBody(st, df, sorted, date_str, zone, point_value))]
                 /\ db' \in FailedWriteTables(db, sorted[1][3], point_value)

NextFail ==
    \/ \E start_date \in Dates, end_date \in Dates, apply_points \in BOOLEAN :
         Quiet /\ GenerateButton("first", start_date, end_date, apply_points)
    \/ \E s \in Sessions : ZoneStep(s)
    \/ \E s \in Sessions : ZoneStepWriteFails(s)

SpecFail == Init /\ [][NextFail]_vars

(***************************************************************************)
(* The roster forms: Save Employee, Delete, Reset Points Now.              *)
(***************************************************************************)
\* add_or_update_employee with INSERT OR REPLACE in place of INSERT OR IGNORE.
add_or_update_employeeReplacing(table, name, initial_points, max_points, off_days, preferred_zone, allowed_zones) ==
    [ n \in DOMAIN table \cup {name} |->
        IF n = name
        THEN EmployeeRow(initial_points, max_points, off_days, preferred_zone, allowed_zones)
        ELSE table[n] ]

\* add_or_update_employee: INSERT OR IGNORE, then UPDATE of the four columns
\* other than points.
add_or_update_employee(table, name, initial_points, max_points, off_days, preferred_zone, allowed_zones) ==
    LET row      == EmployeeRow(initial_points, max_points, off_days,
                                preferred_zone, allowed_zones)
        inserted == [ n \in DOMAIN table \cup {name} |->
                        IF n \in DOMAIN table THEN table[n] ELSE row ]
    IN  [ n \in DOMAIN inserted |->
            IF n = name
            THEN [ inserted[n] EXCEPT !.max_points     = row.max_points,
                                      !.off_days       = row.off_days,
                                      !.preferred_zone = row.preferred_zone,
                                      !.allowed_zones  = row.allowed_zones ]
            ELSE inserted[n] ]

\* The Save Employee button (lines 222-227).
SaveEmployee(name, initial_points, max_points, off_days, preferred_zone, allowed_zones) ==
    /\ db' = add_or_update_employee(db, name, initial_points, max_points,
                                    off_days, preferred_zone, allowed_zones)
    /\ UNCHANGED run

\* delete_employees: DELETE FROM employees WHERE name IN (...)
delete_employees(table, names) ==
    [ n \in DOMAIN table \ SeqToSet(names) |-> table[n] ]

\* The Delete button (lines 231-234).
DeleteButton(names) ==
    /\ db' = IF names = <<>> THEN db ELSE delete_employees(db, names)
    /\ UNCHANGED run

\* What is typed into the Add / Update Employee form:
\* <<initial points, max points, off days, preferred zone, allowed zones>>.
UpsertInputs ==
    { <<3, 3, <<>>,    "A",  <<"A", "B">>>>,
      <<1, 1, <<Fri>>, None, <<"B">>>> }

\* Generate with both date widgets on the same date.
GenerateOneDay ==
    \E start_date \in Dates, apply_points \in BOOLEAN :
        GenerateButton("first", start_date, start_date, apply_points)

\* The next script run: the tables shown by the previous one are gone.
ClearResults ==
    /\ run["first"].pc \in {"done", "error"}
    /\ run' = [run EXCEPT !["first"] = IdleRun]
    /\ UNCHANGED db

\* Every session is between two script runs.
AllIdle == \A s \in Sessions : run[s].pc = "idle"

InitStore ==
    /\ db = <<>>
    /\ run = [s \in Sessions |-> IdleRun]

NextStore ==
    \/ \E name \in Names, in \in UpsertInputs :
         AllIdle /\ SaveEmployee(name, in[1], in[2], in[3], in[4], in[5])
    \/ \E names \in ResetNames : AllIdle /\ DeleteButton(names)
    \/ \E reset_mode \in {"All", "Selected"}, names \in ResetNames :
         AllIdle /\ ResetButton(reset_mode, names)
    \/ AllIdle /\ GenerateOneDay
    \/ \E s \in Sessions : ZoneStep(s)
    \/ ClearResults

SpecStore == InitStore /\ [][NextStore]_vars

(***************************************************************************)
(* Two browser sessions on the one cached connection (get_conn is a        *)
(* cache_resource with check_same_thread=False): their Generate runs        *)
(* interleave iteration by iteration.  An iteration reads the table, decides *)
(* from the run's own points_map and issues at most one UPDATE, which SQLite *)
(* applies as one statement.                                                *)
(***************************************************************************)
ConcurrentRosters ==
    UNION { [S -> RowMenu] : S \in { {}, {<<1>>}, {<<1>>, <<1, 2>>} } }

InitConcurrent ==
    /\ db \in ConcurrentRosters
    /\ run = [s \in Sessions |-> IdleRun]

\* Either session presses Generate for one day with "Apply points" ticked.
GenerateApplying(s) ==
    \E start_date \in Dates : GenerateButton(s, start_date, start_date, TRUE)

NextConcurrent ==
    \/ \E s \in Sessions : GenerateApplying(s)
    \/ \E s \in Sessions : ZoneStep(s)

SpecConcurrent == InitConcurrent /\ [][NextConcurrent]_vars

(***************************************************************************)
(* A roster of one person with 0 points, max_points 1, no off days and zone *)
(* A alone allowed, scheduled over two consecutive days.                    *)
(***************************************************************************)
ScenarioBRosters ==
    { name :> EmployeeRow(0, 1, <<>>, preferred_zone, <<"A">>) :
        name \in Names, preferred_zone \in {None} \cup ZoneSet }

InitScenarioB ==
    /\ db \in ScenarioBRosters
    /\ run = [s \in Sessions |-> IdleRun]

\* Generate with the end date set to the day after the start date.
GenerateTwoDays ==
    \E start_date \in Dates, apply_points \in BOOLEAN :
        /\ Quiet
        /\ GenerateButton("first", start_date, Strftime(Strptime(start_date) + 1),
                          apply_points)

NextScenarioB ==
    \/ GenerateTwoDays
    \/ \E s \in Sessions : ZoneStep(s)

SpecScenarioB == InitScenarioB /\ [][NextScenarioB]_vars

(***************************************************************************)
(* Properties.                                                             *)
(***************************************************************************)
\* The dates of the inclusive range of a run.
RangeDates(st) ==
    {Strftime(d) : d \in Strptime(st.start_date)..Strptime(st.end_date)}

\* The positions of the records of (date, zone) in the two outputs.
AssignedAt(st, d, z) ==
    {i \in 1..Len(st.schedule) : st.schedule[i].Date = d /\ st.schedule[i].Shift = z}

UnassignedAt(st, d, z) ==
    {i \in 1..Len(st.unassigned) : st.unassigned[i].Date = d /\ st.unassigned[i].Zone = z}

\* C1: when a run over a range with start <= end has completed, every date of
\* the inclusive range and every zone of ZONES has exactly one record in the
\* two outputs taken together: one assignment or one unassigned record.
C1_ExactlyOneRecord ==
    \A s \in Sessions :
        (run[s].pc = "done" /\ Strptime(run[s].start_date) <= Strptime(run[s].end_date))
        => \A d \in RangeDates(run[s]), z \in ZoneSet :
              Cardinality(AssignedAt(run[s], d, z))
                + Cardinality(UnassignedAt(run[s], d, z)) = 1

\* A completed run over at least two days that produced records of both kinds.
C1_Witness ==
    \E s \in Sessions :
        /\ run[s].pc = "done"
        /\ Strptime(run[s].start_date) < Strptime(run[s].end_date)
        /\ run[s].schedule # <<>>
        /\ run[s].unassigned # <<>>

\* C2: whenever an assignment record is emitted, the winner's in-memory load
\* just before it plus the record's cost is at most the winner's ceiling; a
\* person whose load at the start of the run had reached the ceiling is in
\* no record.
C2_LoadCeiling ==
    [][ \A s \in Sessions :
          /\ Len(run'[s].schedule) = Len(run[s].schedule) + 1
             => LET rec == run'[s].schedule[Len(run'[s].schedule)]
                IN  PointsOf(run[s].points_map, rec.Employee) + rec.Points
                      <= db[rec.Employee].max_points
          /\ \A i \in 1..Len(run'[s].schedule) :
                LET n == run'[s].schedule[i].Employee
                IN  run'[s].base_df[n].points < run'[s].base_df[n].max_points
      ]_vars

\* A completed run with assignments, one winner ending exactly at the ceiling,
\* beside a person who started at the ceiling.
C2_Witness ==
    \E s \in Sessions :
        /\ run[s].pc = "done"
        /\ \E n \in DOMAIN run[s].base_df :
              run[s].base_df[n].points >= run[s].base_df[n].max_points
        /\ \E i \in 1..Len(run[s].schedule) :
              LET n == run[s].schedule[i].Employee
              IN  run[s].points_map[n] = run[s].base_df[n].max_points

\* C3: two different assignment records of one run that name the same person
\* have dates at least 3 calendar days apart.
C3_Cooldown ==
    \A s \in Sessions :
        \A i, j \in 1..Len(run[s].schedule) :
            (i < j /\ run[s].schedule[i].Employee = run[s].schedule[j].Employee)
            => Strptime(run[s].schedule[j].Date) - Strptime(run[s].schedule[i].Date) >= 3

\* A person assigned twice in one run, exactly 3 days apart.
C3_Witness ==
    \E s \in Sessions :
        \E i, j \in 1..Len(run[s].schedule) :
            /\ i < j
            /\ run[s].schedule[i].Employee = run[s].schedule[j].Employee
            /\ Strptime(run[s].schedule[j].Date) - Strptime(run[s].schedule[i].Date) = 3

\* C4: the assignment records of one date name pairwise distinct persons.
C4_NoDoubleBooking ==
    \A s \in Sessions :
        \A i, j \in 1..Len(run[s].schedule) :
            (i # j /\ run[s].schedule[i].Date = run[s].schedule[j].Date)
            => run[s].schedule[i].Employee # run[s].schedule[j].Employee

\* A date with three assignment records, and a zone of that date left
\* unassigned although one of that date's winners is allowed in it.
C4_Witness ==
    \E s \in Sessions :
        /\ \E i, j, k \in 1..Len(run[s].schedule) :
              /\ i < j /\ j < k
              /\ run[s].schedule[i].Date = run[s].schedule[j].Date
              /\ run[s].schedule[j].Date = run[s].schedule[k].Date
        /\ \E i \in 1..Len(run[s].schedule), u \in 1..Len(run[s].unassigned) :
              /\ run[s].unassigned[u].Date = run[s].schedule[i].Date
              /\ run[s].unassigned[u].Zone
                   \in SeqToSet(run[s].base_df[run[s].schedule[i].Employee].allowed_zones)

\* C5: two completed runs that started from the same roster snapshot and
\* cover the same date range produced the same assignment sequence and the
\* same unassigned sequence, whatever order the rows were read in and
\* whether or not the points were applied.
C5_Determinism ==
    \A s1, s2 \in Sessions :
        ( /\ run[s1].pc = "done" /\ run[s2].pc = "done"
          /\ run[s1].base_df = run[s2].base_df
          /\ run[s1].start_date = run[s2].start_date
          /\ run[s1].end_date = run[s2].end_date )
        => /\ run[s1].schedule = run[s2].schedule
           /\ run[s1].unassigned = run[s2].unassigned

\* Two completed runs from one snapshot, one applying points and one not, in
\* which a person won a zone for which another person, with the same row,
\* was in the running too (that other person won another zone that day).
C5_Witness ==
    /\ run["first"].pc = "done" /\ run["second"].pc = "done"
    /\ run["first"].base_df = run["second"].base_df
    /\ run["first"].apply_points # run["second"].apply_points
    /\ \E i, j \in 1..Len(run["second"].schedule) :
          LET a  == run["second"].schedule[i]
              b  == run["second"].schedule[j]
              df == run["second"].base_df
          IN  /\ i < j
              /\ a.Date = b.Date
              /\ a.Date = run["second"].start_date
              /\ a.Shift \in SeqToSet(df[b.Employee].allowed_zones)
              /\ [df[a.Employee] EXCEPT !.name = <<>>] = [df[b.Employee] EXCEPT !.name = <<>>]

\* The order the claim states: preference match first, then the lower load,
\* then the smaller name.
C6_Before(zone, points_map, df, p, q) ==
    LET pm == (df[p].preferred_zone = zone)
        qm == (df[q].preferred_zone = zone)
    IN  \/ pm /\ ~qm
        \/ pm = qm /\ PointsOf(points_map, p) < PointsOf(points_map, q)
        \/ pm = qm /\ PointsOf(points_map, p) = PointsOf(points_map, q) /\ StrLess(p, q)

\* C6: whenever an assignment record is emitted for (date, zone), its winner
\* is admissible and comes before every other admissible person in the order
\* preference match, lower load, smaller name.
C6_WinnerIsMinimum ==
    [][ \A s \in Sessions :
          Len(run'[s].schedule) = Len(run[s].schedule) + 1
          => LET st   == run[s]
                 rec  == run'[s].schedule[Len(run'[s].schedule)]
                 df   == get_employees(db)
                 adm  == {n \in DOMAIN df :
                            Admissible(st, df[n], rec.Date, rec.Shift, rec.Points)}
             IN  /\ rec.Employee \in adm
                 /\ \A q \in adm \ {rec.Employee} :
                       C6_Before(rec.Shift, st.points_map, df, rec.Employee, q)
      ]_vars

\* A one-day run in which a person preferring the zone won it against a person
\* with a lower load and no preference for it (who, being free that day, won a
\* later zone), and a person won a zone against one with the same preference
\* and a higher load.
C6_Witness ==
    \E s \in Sessions :
        /\ run[s].pc = "done"
        /\ run[s].start_date = run[s].end_date
        /\ \E i, j \in 1..Len(run[s].schedule) :
              LET a  == run[s].schedule[i]
                  b  == run[s].schedule[j]
                  df == run[s].base_df
              IN  /\ i < j
                  /\ df[a.Employee].preferred_zone = a.Shift
                  /\ df[b.Employee].preferred_zone # a.Shift
                  /\ a.Shift \in SeqToSet(df[b.Employee].allowed_zones)
                  /\ df[b.Employee].points < df[a.Employee].points
        /\ \E i, j \in 1..Len(run[s].schedule) :
              LET a  == run[s].schedule[i]
                  b  == run[s].schedule[j]
                  df == run[s].base_df
              IN  /\ i < j
                  /\ df[a.Employee].preferred_zone = df[b.Employee].preferred_zone
                  /\ a.Shift \in SeqToSet(df[b.Employee].allowed_zones)
                  /\ df[a.Employee].points < df[b.Employee].points

\* The five admissibility conditions as the claim states them, read off the
\* stored roster and the records the run has emitted so far.
C7_Conditions(st, table, n, d, z) ==
    LET r    == get_employees(table)[n]
        cost == IF Weekday(Strptime(d)) \in {5, 6} THEN 2 ELSE 1
        mine == {i \in 1..Len(st.schedule) : st.schedule[i].Employee = n}
    IN  /\ \A k \in 1..Len(r.off_days) : r.off_days[k] # d
        /\ \A i \in mine : st.schedule[i].Date # d
        /\ \A i \in mine : Strptime(d) - Strptime(st.schedule[i].Date) >= 3
        /\ PointsOf(st.points_map, n) + cost <= r.max_points
        /\ \E k \in 1..Len(r.allowed_zones) : r.allowed_zones[k] = z

\* C7: the iteration for (date, zone) emits an assignment record if and only
\* if some person of the roster meets the five conditions at that moment, and
\* the winner meets them; otherwise it emits an unassigned record.
C7_AssignedIffAdmissible ==
    [][ \A s \in Sessions :
          (run[s].pc = "running" /\ run'[s] # run[s])
          => LET st == run[s]
                 d  == Strftime(st.current)
                 z  == ZONES[st.zi]
                 emitted == Len(run'[s].schedule) = Len(st.schedule) + 1
             IN  /\ emitted <=> \E n \in DOMAIN db : C7_Conditions(st, db, n, d, z)
                 /\ emitted =>
                      LET rec == run'[s].schedule[Len(run'[s].schedule)]
                      IN  /\ rec.Date = d /\ rec.Shift = z
                          /\ rec.Employee \in DOMAIN db
                          /\ C7_Conditions(st, db, rec.Employee, d, z)
                 /\ ~emitted =>
                      /\ run'[s].schedule = st.schedule
                      /\ Len(run'[s].unassigned) = Len(st.unassigned) + 1
      ]_vars

\* A completed run with an assignment, in which a zone of a date stayed
\* unassigned while a person allowed in that zone, under the ceiling and
\* never assigned in the run had that date among the blocked dates.
C7_Witness ==
    \E s \in Sessions :
        /\ run[s].pc = "done"
        /\ run[s].schedule # <<>>
        /\ \E u \in 1..Len(run[s].unassigned), n \in DOMAIN run[s].base_df :
              LET rec == run[s].unassigned[u]
                  r   == run[s].base_df[n]
              IN  /\ rec.Reason = "No eligible employees"
                  /\ rec.Date \in SeqToSet(r.off_days)
                  /\ rec.Zone \in SeqToSet(r.allowed_zones)
                  /\ r.points + PointValue(rec.Date) <= r.max_points
                  /\ \A i \in 1..Len(run[s].schedule) : run[s].schedule[i].Employee # n

\* C8: every assignment record carries the cost 2 when its date is a Saturday
\* or a Sunday and the cost 1 otherwise, whatever the zone and the person.
C8_WeekendWeighting ==
    \A s \in Sessions :
        \A i \in 1..Len(run[s].schedule) :
            run[s].schedule[i].Points =
                IF Weekday(Strptime(run[s].schedule[i].Date)) \in {5, 6} THEN 2 ELSE 1

\* A run with assignments on Friday 2025-08-29, on Saturday 2025-08-30 or
\* Sunday 2025-08-31, and on Monday 2025-09-01.
C8_Witness ==
    \E s \in Sessions :
        LET days == {run[s].schedule[i].Date : i \in 1..Len(run[s].schedule)}
        IN  /\ <<2025, 8, 29>> \in days
            /\ <<2025, 8, 30>> \in days \/ <<2025, 8, 31>> \in days
            /\ <<2025, 9, 1>> \in days

\* C9: during and after a run with apply_points = False, every stored row has
\* the points it had when the run read the roster at its start.
C9_NoWriteWithoutApply ==
    \A s \in Sessions :
        (run[s].pc \in {"running", "done"} /\ ~run[s].apply_points)
        => /\ DOMAIN db = DOMAIN run[s].base_df
           /\ \A n \in DOMAIN db : db[n].points = run[s].base_df[n].points

\* A completed run without apply_points that assigned a person twice, on a
\* roster whose stored points are all 0.
C9_Witness ==
    \E s \in Sessions :
        /\ run[s].pc = "done"
        /\ ~run[s].apply_points
        /\ \A n \in DOMAIN db : db[n].points = 0
        /\ \E i, j \in 1..Len(run[s].schedule) :
              i < j /\ run[s].schedule[i].Employee = run[s].schedule[j].Employee

\* C10: pressing Generate with a start date after the end date ends in the
\* error outcome at once, with no record emitted and the table as it was, and
\* no iteration follows it.
C10_ReversedRangeRejected ==
    [][ \A s \in Sessions :
          /\ ( /\ run[s].pc = "idle" /\ run'[s].pc # "idle"
               /\ Strptime(run'[s].start_date) > Strptime(run'[s].end_date) )
             => /\ run'[s].pc = "error"
                /\ run'[s].schedule = <<>> /\ run'[s].unassigned = <<>>
                /\ db' = db
          /\ run[s].pc = "error" => run'[s] = run[s]
      ]_vars

\* Generate was pressed with the start date after the end date, on a roster
\* with a person who could have been assigned.
C10_Witness ==
    \E s \in Sessions :
        /\ run[s].pc = "error"
        /\ Strptime(run[s].start_date) > Strptime(run[s].end_date)
        /\ \E n \in DOMAIN db : db[n].points < db[n].max_points

\* C11: an iteration that finds the table empty emits no assignment and one
\* unassigned record with the reason "No employees"; an unassigned record has
\* that reason only when the table was empty at its iteration and the reason
\* "No eligible employees" otherwise; a run over an empty roster ends with no
\* assignment and one "No employees" record per date and zone.
C11_NoRosterReason ==
    [][ \A s \in Sessions :
          (run[s].pc = "running" /\ run'[s] # run[s])
          => LET st == run[s]
                 d  == Strftime(st.current)
                 z  == ZONES[st.zi]
                 un == run'[s].unassigned
             IN  /\ DOMAIN db = {}
                    => /\ run'[s].schedule = st.schedule
                       /\ un = Append(st.unassigned,
                                      [Date |-> d, Zone |-> z, Reason |-> "No employees"])
                 /\ Len(un) = Len(st.unassigned) + 1
                    => un[Len(un)].Reason =
                          IF DOMAIN db = {} THEN "No employees" ELSE "No eligible employees"
                 /\ (run'[s].pc = "done" /\ DOMAIN st.base_df = {})
                    => /\ run'[s].schedule = <<>>
                       /\ \A dd \in RangeDates(st), zz \in ZoneSet :
                             \E i \in 1..Len(un) :
                                 /\ un[i] = [Date |-> dd, Zone |-> zz, Reason |-> "No employees"]
                                 /\ \A j \in 1..Len(un) :
                                       (un[j].Date = dd /\ un[j].Zone = zz) => j = i
      ]_vars

\* A completed one-day run over the empty roster: five "No employees" records.
C11_Witness ==
    \E s \in Sessions :
        /\ run[s].pc = "done"
        /\ DOMAIN run[s].base_df = {}
        /\ run[s].start_date = run[s].end_date
        /\ Len(run[s].unassigned) = 5
        /\ \A i \in 1..5 : run[s].unassigned[i].Reason = "No employees"

\* The roster and the range of the scenario: one person with load 0, ceiling
\* 1, no blocked date and zone A alone allowed; two consecutive days.
C12_Scenario(st) ==
    /\ Cardinality(DOMAIN st.base_df) = 1
    /\ \A n \in DOMAIN st.base_df :
          /\ st.base_df[n].points = 0
          /\ st.base_df[n].max_points = 1
          /\ st.base_df[n].off_days = <<>>
          /\ st.base_df[n].allowed_zones = <<"A">>
    /\ Strptime(st.end_date) = Strptime(st.start_date) + 1

\* What the scenario is said to end in: the person assigned to A on day 1 and
\* nowhere else, the tally at the cost of day 1, and A of day 2 unassigned
\* for want of an eligible person.
C12_Outcome(st) ==
    \A n \in DOMAIN st.base_df :
        LET cost == IF Weekday(Strptime(st.start_date)) \in {5, 6} THEN 2 ELSE 1
        IN  /\ st.schedule = << [Date |-> st.start_date, Shift |-> "A",
                                 Employee |-> n, Points |-> cost] >>
            /\ st.points_map[n] = cost
            /\ \E i \in 1..Len(st.unassigned) :
                  st.unassigned[i] = [Date |-> st.end_date, Zone |-> "A",
                                      Reason |-> "No eligible employees"]

\* C12 as stated: for any two consecutive days the completed run of the
\* scenario has the person on A on day 1 and A unassigned on day 2.
C12_AnyTwoDays ==
    \A s \in Sessions :
        (run[s].pc = "done" /\ C12_Scenario(run[s])) => C12_Outcome(run[s])

\* C12, amended: the same, for two consecutive days of which the first is not
\* a Saturday or a Sunday.
C12_WeekdayFirst ==
    \A s \in Sessions :
        ( /\ run[s].pc = "done"
          /\ C12_Scenario(run[s])
          /\ Weekday(Strptime(run[s].start_date)) \notin {5, 6} )
        => C12_Outcome(run[s])

\* The scenario completed over Friday 2025-08-29 and Saturday 2025-08-30.
C12_Witness ==
    \E s \in Sessions :
        /\ run[s].pc = "done"
        /\ C12_Scenario(run[s])
        /\ run[s].start_date = <<2025, 8, 29>>
        /\ Len(run[s].schedule) = 1

\* The place of a zone in ZONES.
ZoneIndex(z) == CHOOSE k \in 1..Len(ZONES) : ZONES[k] = z

\* (d1, z1) strictly before (d2, z2): an earlier date, or the same date and an
\* earlier zone of A, B, C, I, E.
C13_Earlier(d1, z1, d2, z2) ==
    \/ Strptime(d1) < Strptime(d2)
    \/ d1 = d2 /\ ZoneIndex(z1) < ZoneIndex(z2)

\* s is t or t with records added at the end.
IsPrefix(s, t) == Len(s) <= Len(t) /\ SubSeq(t, 1, Len(s)) = s

\* C13: during a run each output sequence only grows at its end, every record
\* added is for the (date, zone) the run is at, which lies after the (date,
\* zone) of every record emitted before, and the run goes on to the next zone
\* of ZONES or, after E, to A of the next day.
C13_GenerationOrder ==
    [][ \A s \in Sessions :
          (run[s].pc = "running" /\ run'[s] # run[s])
          => LET st == run[s]
                 d  == Strftime(st.current)
                 z  == ZONES[st.zi]
             IN  /\ IsPrefix(st.schedule, run'[s].schedule)
                 /\ IsPrefix(st.unassigned, run'[s].unassigned)
                 /\ Len(run'[s].schedule) + Len(run'[s].unassigned)
                      = Len(st.schedule) + Len(st.unassigned) + 1
                 /\ \A i \in 1..Len(run'[s].schedule) :
                       LET rec == run'[s].schedule[i]
                       IN  IF i <= Len(st.schedule)
                           THEN C13_Earlier(rec.Date, rec.Shift, d, z)
                           ELSE rec.Date = d /\ rec.Shift = z
                 /\ \A i \in 1..Len(run'[s].unassigned) :
                       LET rec == run'[s].unassigned[i]
                       IN  IF i <= Len(st.unassigned)
                           THEN C13_Earlier(rec.Date, rec.Zone, d, z)
                           ELSE rec.Date = d /\ rec.Zone = z
                 /\ run'[s].pc = "running"
                    => C13_Earlier(d, z, Strftime(run'[s].current), ZONES[run'[s].zi])
      ]_vars

\* A completed run with assignments on two dates, two of them on one date,
\* and unassigned records on two dates.
C13_Witness ==
    \E s \in Sessions :
        /\ run[s].pc = "done"
        /\ \E i, j, k \in 1..Len(run[s].schedule) :
              /\ i < j /\ j < k
              /\ run[s].schedule[i].Date = run[s].schedule[j].Date
              /\ run[s].schedule[j].Date # run[s].schedule[k].Date
        /\ \E i, j \in 1..Len(run[s].unassigned) :
              run[s].unassigned[i].Date # run[s].unassigned[j].Date

\* The sum of the costs of the first k assignment records that name n.
RECURSIVE CostSum(_, _, _)
CostSum(schedule, n, k) ==
    IF k = 0 THEN 0
    ELSE CostSum(schedule, n, k - 1)
           + (IF schedule[k].Employee = n THEN schedule[k].Points ELSE 0)

\* C14: in a run with apply_points, an iteration that emits a record whose
\* increment is missing from the table ends the call as failed; a failed call
\* takes no further step and the table stays as the failure left it; at the
\* failure every person's stored points still hold every increment written
\* before it, and only the winner's row may differ from before the iteration.
C14_FailureStopsRun ==
    [][ \A s \in Sessions :
          /\ ( /\ run[s].pc = "running" /\ run[s].apply_points
               /\ Len(run'[s].schedule) = Len(run[s].schedule) + 1
               /\ LET n == run'[s].schedule[Len(run'[s].schedule)].Employee
                  IN  db'[n].points = db[n].points )
             => run'[s].pc = "failed"
          /\ run[s].pc = "failed" => (run'[s] = run[s] /\ db' = db)
          /\ (run[s].pc = "running" /\ run'[s].pc = "failed")
             => LET k == Len(run'[s].schedule)
                    w == run'[s].schedule[k].Employee
                IN  /\ DOMAIN db' = DOMAIN db
                    /\ \A n \in DOMAIN db :
                          /\ n # w => db'[n] = db[n]
                          /\ db'[n].points >= db[n].points
                          /\ db'[n].points >= run'[s].base_df[n].points
                                + CostSum(run'[s].schedule, n, k - 1)
      ]_vars

\* A call that failed at its third assignment or later, the table holding an
\* increment written before the failure.
C14_Witness ==
    \E s \in Sessions :
        /\ run[s].pc = "failed"
        /\ Len(run[s].schedule) >= 3
        /\ \E n \in DOMAIN db :
              /\ n # run[s].schedule[Len(run[s].schedule)].Employee
              /\ db[n].points > run[s].base_df[n].points

\* C15: Save Employee for a name already stored leaves that row's points as
\* they were, whatever initial points are passed, and stores the ceiling, the
\* off days, the preferred zone and the allowed zones passed; for a name not
\* stored it creates the row with the initial points passed; every other row
\* is untouched.
C15_UpsertKeepsLoad ==
    [][ \A name \in Names, in \in UpsertInputs :
          SaveEmployee(name, in[1], in[2], in[3], in[4], in[5])
          => /\ DOMAIN db' = DOMAIN db \cup {name}
             /\ \A n \in DOMAIN db \ {name} : db'[n] = db[n]
             /\ db'[name].points = IF name \in DOMAIN db THEN db[name].points ELSE in[1]
             /\ LET r == get_employees(db')[name]
                IN  /\ r.max_points = in[2]
                    /\ r.off_days = in[3]
                    /\ r.preferred_zone = in[4]
                    /\ r.allowed_zones = in[5]
      ]_vars

\* A person with ceiling 1 and more than 1 point: the ceiling came with a save
\* over the existing row (the form's initial points for it being 1), since
\* under ceiling 1 no run takes the points above 1.
C15_Witness ==
    \E n \in DOMAIN db : db[n].max_points = 1 /\ db[n].points > 1

\* C16: Reset Points Now in mode All sets the points of every row to 0; in
\* mode Selected it sets the points of the stored rows that are named to 0
\* and leaves the other rows as they are; no row is added or removed and no
\* other column changes.
C16_ResetPoints ==
    [][ \A reset_mode \in {"All", "Selected"}, names \in ResetNames :
          ResetButton(reset_mode, names)
          => /\ DOMAIN db' = DOMAIN db
             /\ \A n \in DOMAIN db :
                   IF reset_mode = "All" \/ \E i \in 1..Len(names) : names[i] = n
                   THEN db'[n] = [db[n] EXCEPT !.points = 0]
                   ELSE db'[n] = db[n]
      ]_vars

\* A person with 0 points (no row is created with 0 points, so a reset did
\* it) beside a person who still has points.
C16_Witness ==
    \E n, m \in DOMAIN db : db[n].points = 0 /\ db[m].points > 0

\* The points the runs that apply points have emitted for n so far.
RECURSIVE C17_Emitted(_, _, _)
C17_Emitted(r, n, S) ==
    IF S = {} THEN 0
    ELSE LET s == CHOOSE x \in S : TRUE
         IN  (IF r[s].apply_points
              THEN CostSum(r[s].schedule, n, Len(r[s].schedule)) ELSE 0)
             + C17_Emitted(r, n, S \ {s})

\* C17: under every interleaving of the two runs, each step changes a
\* person's stored points by exactly the cost of the records it emits for
\* that person; so stored points = points before the runs + the costs of all
\* records naming the person in both runs, at every moment and at the end.
C17_NoLostIncrement ==
    [][ /\ DOMAIN db' = DOMAIN db
        /\ \A n \in DOMAIN db :
              db'[n].points - C17_Emitted(run', n, Sessions)
                = db[n].points - C17_Emitted(run, n, Sessions)
      ]_vars

\* Both runs completed, each with a record for the same person, the two
\* having read the same points for that person at their start (so neither
\* started after the other's increment), and the table holding both costs.
C17_Witness ==
    /\ run["first"].pc = "done" /\ run["second"].pc = "done"
    /\ \E n \in DOMAIN db :
          /\ \E i \in 1..Len(run["first"].schedule) : run["first"].schedule[i].Employee = n
          /\ \E i \in 1..Len(run["second"].schedule) : run["second"].schedule[i].Employee = n
          /\ run["first"].base_df[n].points = run["second"].base_df[n].points
          /\ db[n].points = run["first"].base_df[n].points
                + CostSum(run["first"].schedule, n, Len(run["first"].schedule))
                + CostSum(run["second"].schedule, n, Len(run["second"].schedule))

\* C18 as stated: also while two applying runs interleave, every increment
\* leaves the stored points at or under the stored ceiling.
C18_NeverAboveCeiling ==
    [][ \A n \in DOMAIN db :
          db'[n].points > db[n].points => db'[n].points <= db'[n].max_points
      ]_vars

\* C18, amended: an increment written by a run leaves the stored points at or
\* under the stored ceiling whenever the stored points of the winner equal
\* the run's own tally for the winner when the increment is written.
C18_AtCeilingWhenTallyCurrent ==
    [][ \A s \in Sessions :
          ( /\ run[s].pc = "running" /\ run[s].apply_points
            /\ Len(run'[s].schedule) = Len(run[s].schedule) + 1
            /\ LET n == run'[s].schedule[Len(run'[s].schedule)].Employee
               IN  db[n].points = PointsOf(run[s].points_map, n) )
          => LET n == run'[s].schedule[Len(run'[s].schedule)].Employee
             IN  /\ db'[n].points > db[n].points
                 /\ db'[n].points <= db'[n].max_points
      ]_vars

\* Two runs with records, one of which took a person nobody else wrote to
\* exactly to the ceiling.
C18_Witness ==
    \E s, o \in Sessions :
        /\ s # o
        /\ run[s].pc = "done"
        /\ run[o].schedule # <<>>
        /\ \E n \in DOMAIN db :
              /\ db[n].points = db[n].max_points
              /\ db[n].points > run[s].base_df[n].points
              /\ \A i \in 1..Len(run[o].schedule) : run[o].schedule[i].Employee # n

\* C19: at every point of a run, each person's tally in points_map is their
\* points in base_df plus the costs of the records emitted so far that name
\* them; and in a run that applies points, with no other writer, the stored
\* points equal the tally after every iteration.
C19_LoadAccounting ==
    \A s \in Sessions :
        run[s].pc \in {"running", "done"} =>
            /\ DOMAIN run[s].points_map = DOMAIN run[s].base_df
            /\ \A n \in DOMAIN run[s].base_df :
                  /\ run[s].points_map[n]
                       = run[s].base_df[n].points
                           + CostSum(run[s].schedule, n, Len(run[s].schedule))
                  /\ run[s].apply_points => db[n].points = run[s].points_map[n]

\* A completed applying run in which one person has two records and another
\* person of the roster has none.
C19_Witness ==
    \E s \in Sessions :
        /\ run[s].pc = "done" /\ run[s].apply_points
        /\ \E n, m \in DOMAIN run[s].base_df :
              /\ \E i, j \in 1..Len(run[s].schedule) :
                    /\ i < j
                    /\ run[s].schedule[i].Employee = n
                    /\ run[s].schedule[j].Employee = n
              /\ \A i \in 1..Len(run[s].schedule) : run[s].schedule[i].Employee # m
              /\ db[m].points = run[s].base_df[m].points
              /\ db[n].points > run[s].base_df[n].points + 1

\* C20: every iteration of a run leaves the run exactly as the same iteration
\* computed over base_df, the snapshot taken at the start of the run, would
\* leave it, whatever order the snapshot's rows come in; so the schedule and
\* unassigned lists of the two coincide record by record.
C20_SnapshotEquivalent ==
    [][ \A s \in Sessions :
          (run[s].pc = "running" /\ run'[s] # run[s]) =>
             LET st          == run[s]
                 date_str    == Strftime(st.current)
                 point_value == PointValue(date_str)
                 zone        == ZONES[st.zi]
             IN  \A order \in RowOrders(st.base_df) :
                   run'[s] = Advance(ZoneBody(st, st.base_df,
                                 Sort(Candidates(st, st.base_df, order,
                                                 date_str, zone, point_value)),
                                 date_str, zone, point_value))
      ]_vars

\* A completed applying run with assignment and unassigned records after
\* which the table differs from the snapshot for two people.
C20_Witness ==
    \E s \in Sessions :
        /\ run[s].pc = "done" /\ run[s].apply_points
        /\ run[s].unassigned # <<>>
        /\ \E n, m \in DOMAIN run[s].base_df :
              /\ n # m
              /\ db[n].points # run[s].base_df[n].points
              /\ db[m].points # run[s].base_df[m].points

====
